---- MODULE Spec2Model ----
(***************************************************************************)
(* A model of the quadtree of quadtree.c / aabb.c.                         *)
(*                                                                         *)
(* Coordinates are C floats.  Every coordinate the model uses is a         *)
(* multiple of 1/Scale that a float holds exactly, so a float x is kept as *)
(* the integer x * Scale and +, -, and /2 are exact; the one lossy         *)
(* operation of the code, the float -> int conversion in front of abs(),   *)
(* is modelled by what it does (truncation toward zero).                   *)
(*                                                                         *)
(* Spec is the single-threaded program: every call runs to its return.     *)
(* SpecC is the multi-threaded program with a working mutex installed: the *)
(* calls of the threads interleave at their accesses to shared memory.     *)
(*                                                                         *)
(* A node is named by <<g>> \o path: g is the number of the root it hangs  *)
(* under (a new root is allocated by every qtree_clear) and path is the    *)
(* list of quadrants leading to it.  A node records which of its child     *)
(* pointers are set, so a pointer to a freed node differs from NULL.       *)
(***************************************************************************)
EXTENDS Integers, Sequences, FiniteSets, TLC

VARIABLES
    nodes,       \* the allocated qnode structs: name -> [bound, elist, wrlockval, kids, lock]
    root,        \* q->root
    maxnodecap,  \* q->maxnodecap
    qwrlockval,  \* q->wrlockval, the tree-global intent counter
    gen,         \* number of roots allocated by qtree_clear so far
    last,        \* the last call that returned: [op, arg, res]
    retlist,     \* the list the last qtree_findInArea returned
    expect,      \* per handle: accepted inserts minus removes made while present
    th,          \* per thread: where it stands in its call, and the call's locals
    fault        \* the first memory error of the process, "none" before it

vars == <<nodes, root, maxnodecap, qwrlockval, gen, last, retlist, expect, th, fault>>

----------------------------------------------------------------------------
(* Bounds of the model *)

\* nodes exist at depth 0..MaxDepth; an insert that would subdivide deeper is not taken
MaxDepth == 2
\* an insert is taken only while fewer than MaxElems handles are stored
MaxElems == 3
\* qtree_clear is taken at most MaxClears times
MaxClears == 1
\* a thread of the multi-threaded program makes at most MaxCalls calls
MaxCalls == 1

----------------------------------------------------------------------------
(* Program constants and inputs *)

\* resolution of the fixed-point image of a float: 1.0f is Scale
Scale == 4

QTREE_STDCAP == 4

NW == 1
NE == 2
SW == 3
SE == 4

NULL == "NULL"

\* qtree_new(0, 0, 4, 4, fnc): the arguments of the constructor, in floats
NewX == 0
NewY == 0
NewW == 4 * Scale
NewH == 4 * Scale

\* The element handles the callers pass.  Each is an opaque pointer; the
\* caller's structure behind it is a closed box [x0,x1] x [y0,y1]
\* (a point when the corners coincide).
Handles == {"A", "S", "O"}

HandleBox(h) ==
    CASE h = "A" -> [x0 |-> 1 * Scale, y0 |-> 1 * Scale, x1 |-> 1 * Scale, y1 |-> 1 * Scale]
      [] h = "S" -> [x0 |-> 2 * Scale, y0 |-> Scale \div 2, x1 |-> 2 * Scale, y1 |-> (3 * Scale) \div 2]
      [] h = "O" -> [x0 |-> 5 * Scale, y0 |-> 5 * Scale, x1 |-> 5 * Scale, y1 |-> 5 * Scale]

\* The (x, y, w, h) arguments passed to qtree_findInArea
Areas ==
    { [x |-> 0,         y |-> 0,         w |-> 4 * Scale, h |-> 4 * Scale],
      [x |-> 2 * Scale, y |-> 0,         w |-> 2 * Scale, h |-> 2 * Scale] }

\* The counts passed to qtree_setMaxNodeCnt
Counts == {0, 3}

\* The threads of the multi-threaded program, and what they pass
Threads == {1, 2, 3}

ThreadHandles == {"A"}

ThreadAreas == { [x |-> 0, y |-> 0, w |-> 4 * Scale, h |-> 4 * Scale] }

\* a thread between two calls, after n calls; the locals of a call are
\* op, arg: the call and its argument          cur: the node qn of the innermost qnode_ call
\* k: the child subdivide creates next          ret: the value a qnode_ call returns
\* list: the retlist                            old, bnd: qn and x, y, w, h of qtree_clear
Idle(n) ==
    [pc |-> "idle", op |-> "none", arg |-> 0, cur |-> <<>>, k |-> 0, ret |-> 0,
     list |-> <<>>, old |-> <<>>, bnd |-> 0, calls |-> n]

----------------------------------------------------------------------------
(* aabb.c *)

Abs(i) == IF i < 0 THEN -i ELSE i

\* (int)f for a float f: the fraction is discarded, toward zero
FloatToInt(f) == IF f < 0 THEN -((-f) \div Scale) ELSE f \div Scale

\* (float)i for an int i
IntToFloat(i) == i * Scale

aabb(x, y, hW, hH) == [cx |-> x, cy |-> y, hw |-> hW, hh |-> hH]

aabb_contains(a, x, y) ==
    /\ x >= a.cx - a.hw
    /\ x <= a.cx + a.hw
    /\ y >= a.cy - a.hh
    /\ y <= a.cy + a.hh

\* an intersection test that forgets the extents of b
aabb_intersects_own(a, b) ==
    /\ IntToFloat(Abs(FloatToInt(a.cx - b.cx))) < a.hw
    /\ IntToFloat(Abs(FloatToInt(a.cy - b.cy))) < a.hh

\* abs() is int abs(int): its float argument is converted to int first, and
\* the int result is converted back for the comparison with the float sum
aabb_intersects(a, b) ==
    /\ IntToFloat(Abs(FloatToInt(a.cx - b.cx))) < a.hw + b.hw
    /\ IntToFloat(Abs(FloatToInt(a.cy - b.cy))) < a.hh + b.hh

\* The caller's qtree_fnc: the element lies within the range, borders included
cmpfnc(ptr, range) ==
    /\ aabb_contains(range, HandleBox(ptr).x0, HandleBox(ptr).y0)
    /\ aabb_contains(range, HandleBox(ptr).x1, HandleBox(ptr).y1)

----------------------------------------------------------------------------
(* quadtree.c: nodes *)

\* kids holds the quadrants whose pointer (nw, ne, sw, se) is not NULL;
\* lock is the thread holding the mutex qn->lock, 0 when it is free
qnode_new(x, y, hW, hH) ==
    [bound |-> aabb(x, y, hW, hH), elist |-> <<>>, wrlockval |-> 0,
     kids |-> {}, lock |-> 0]

Child(qn, k) == Append(qn, k)

\* the test  qn->nw != NULL
HasNW(ns, qn) == NW \in ns[qn].kids

Depth(qn) == Len(qn) - 1

\* qn->cnt
Cnt(ns, qn) == Len(ns[qn].elist)

retlist_add(r, p) == Append(r, p)

\* an add that puts the element in front of the list
add_front(ns, qn, p) == [ns EXCEPT ![qn].elist = <<p>> \o @]

add(ns, qn, p) == [ns EXCEPT ![qn].elist = Append(@, p)]

\* a drop that ignores idx and leaves out the first slot
drop_first(ns, qn, idx) == [ns EXCEPT ![qn].elist = Tail(@)]

\* the array without slot idx (slots are numbered from 1 here), order kept
drop(ns, qn, idx) ==
    [ns EXCEPT ![qn].elist = SubSeq(@, 1, idx - 1) \o SubSeq(@, idx + 1, Len(@))]

\* one assignment of subdivide:  q->nw = qnode_new(p, cx-hw, cy-hh, hw, hh)  and so on
subdivide_one(ns, qn, k) ==
    LET cx == ns[qn].bound.cx
        cy == ns[qn].bound.cy
        hw == ns[qn].bound.hw \div 2
        hh == ns[qn].bound.hh \div 2
        x  == IF k \in {NW, SW} THEN cx - hw ELSE cx + hw
        y  == IF k \in {NW, NE} THEN cy - hh ELSE cy + hh
    IN  (Child(qn, k) :> qnode_new(x, y, hw, hh)) @@
        [ns EXCEPT ![qn].kids = @ \cup {k}]

subdivide(ns, qn) ==
    subdivide_one(subdivide_one(subdivide_one(subdivide_one(ns, qn, NW), qn, NE), qn, SW), qn, SE)

\* an increment that leaves the counter as it is
_atomic_incrlock_skip(ns, qn) == ns

_atomic_incrlock(ns, qn) == [ns EXCEPT ![qn].wrlockval = @ + 1]

\* a decrement that leaves the counter as it is
_atomic_decrlock_skip(ns, qn) == ns

_atomic_decrlock(ns, qn) == [ns EXCEPT ![qn].wrlockval = @ - 1]

_atomic_val(ns, qn) == ns[qn].wrlockval

\* a capacity that is one more than the stored one
qtree_getMaxNodeCnt_more(cap) == cap + 1

qtree_getMaxNodeCnt(cap) == cap

\* index of the first slot of the list holding ptr, 0 when there is none
FirstIdx(list, ptr) ==
    IF \E i \in 1..Len(list) : list[i] = ptr
    THEN CHOOSE i \in 1..Len(list) :
            /\ list[i] = ptr
            /\ \A j \in 1..(i - 1) : list[j] # ptr
    ELSE 0

(***************************************************************************)
(* qnode_insert run by the only thread there is.  The result is the node   *)
(* table after the call, the value returned, hang (the call spins forever  *)
(* in ATOM_SPIN) and deep (the call would subdivide a node at MaxDepth).   *)
(***************************************************************************)
InsRes(ns, r, hg, dp) == [nodes |-> ns, ret |-> r, hang |-> hg, deep |-> dp]

RECURSIVE qnode_insert(_, _, _, _)

\* an insert that never asks the predicate and never descends
qnode_insert_unchecked(ns, cap, qn, ptr) ==
    IF Cnt(ns, qn) < qtree_getMaxNodeCnt(cap)
    THEN InsRes(add(ns, qn, ptr), 1, FALSE, FALSE)
    ELSE InsRes(ns, 0, FALSE, FALSE)

qnode_insert(ns, cap, qn, ptr) ==
    LET n1 == _atomic_incrlock(ns, qn) IN
    IF _atomic_val(n1, qn) # 1 THEN InsRes(n1, 0, TRUE, FALSE)
    ELSE IF ~cmpfnc(ptr, n1[qn].bound) THEN InsRes(_atomic_decrlock(n1, qn), 0, FALSE, FALSE)
    ELSE IF Cnt(n1, qn) < qtree_getMaxNodeCnt(cap)
         THEN InsRes(_atomic_decrlock(add(n1, qn, ptr), qn), 1, FALSE, FALSE)
    ELSE IF ~HasNW(n1, qn) /\ Depth(qn) >= MaxDepth THEN InsRes(n1, 0, FALSE, TRUE)
    ELSE
        LET n2 == IF ~HasNW(n1, qn) THEN subdivide(n1, qn) ELSE n1
            n3 == _atomic_decrlock(n2, qn)
            r1 == qnode_insert(n3, cap, Child(qn, NW), ptr)
        IN  IF r1.ret = 1 \/ r1.hang \/ r1.deep THEN r1 ELSE
            LET r2 == qnode_insert(r1.nodes, cap, Child(qn, NE), ptr) IN
            IF r2.ret = 1 \/ r2.hang \/ r2.deep THEN r2 ELSE
            LET r3 == qnode_insert(r2.nodes, cap, Child(qn, SW), ptr) IN
            IF r3.ret = 1 \/ r3.hang \/ r3.deep THEN r3 ELSE
            LET r4 == qnode_insert(r3.nodes, cap, Child(qn, SE), ptr) IN
            IF r4.ret = 1 \/ r4.hang \/ r4.deep THEN r4 ELSE
            InsRes(r4.nodes, 0, FALSE, FALSE)

(***************************************************************************)
(* qnode_remove.  On a hit the code sets ptr = NULL before it jumps to     *)
(* QN_REM_EXIT, where it returns ptr.  dropped counts the calls of drop.   *)
(***************************************************************************)
RemRes(ns, r, hg, d) == [nodes |-> ns, ret |-> r, hang |-> hg, dropped |-> d]

RECURSIVE qnode_remove(_, _, _)
qnode_remove(ns, qn, ptr) ==
    LET n1 == _atomic_incrlock(ns, qn)
        i  == FirstIdx(n1[qn].elist, ptr)
    IN
    IF _atomic_val(n1, qn) # 1 THEN RemRes(n1, NULL, TRUE, 0)
    ELSE IF Cnt(n1, qn) # 0 /\ i # 0
         THEN RemRes(_atomic_decrlock(drop(n1, qn, i), qn), NULL, FALSE, 1)
    ELSE
        LET n2 == _atomic_decrlock(n1, qn) IN
        IF ~HasNW(n2, qn) THEN RemRes(n2, NULL, FALSE, 0) ELSE
        LET r1 == qnode_remove(n2, Child(qn, NW), ptr) IN
        IF r1.ret # NULL \/ r1.hang THEN [r1 EXCEPT !.ret = ptr] ELSE
        LET r2 == qnode_remove(r1.nodes, Child(qn, NE), ptr) IN
        IF r2.ret # NULL \/ r2.hang
        THEN [r2 EXCEPT !.ret = ptr, !.dropped = @ + r1.dropped] ELSE
        LET r3 == qnode_remove(r2.nodes, Child(qn, SW), ptr) IN
        IF r3.ret # NULL \/ r3.hang
        THEN [r3 EXCEPT !.ret = ptr, !.dropped = @ + r1.dropped + r2.dropped] ELSE
        LET r4 == qnode_remove(r3.nodes, Child(qn, SE), ptr) IN
        IF r4.ret # NULL \/ r4.hang
        THEN [r4 EXCEPT !.ret = ptr, !.dropped = @ + r1.dropped + r2.dropped + r3.dropped]
        ELSE RemRes(r4.nodes, NULL, FALSE,
                    r1.dropped + r2.dropped + r3.dropped + r4.dropped)

(***************************************************************************)
(* qnode_getInRange: r is the retlist so far, range its search range.      *)
(* seen lists the nodes the call and the calls below it were made on, in   *)
(* the order of the calls.                                                 *)
(***************************************************************************)
GetRes(ns, r, hg, sn) == [nodes |-> ns, list |-> r, hang |-> hg, seen |-> sn]

\* a scan that appends every element without asking the predicate
Matching_all(list, range) == list

\* the loop over the element list: the elements the predicate accepts for range
RECURSIVE Matching(_, _)
Matching(list, range) ==
    IF list = <<>> THEN <<>>
    ELSE IF cmpfnc(Head(list), range)
         THEN <<Head(list)>> \o Matching(Tail(list), range)
         ELSE Matching(Tail(list), range)

RECURSIVE qnode_getInRange(_, _, _, _)
qnode_getInRange(ns, qn, r, range) ==
    LET n1 == _atomic_decrlock(ns, qn) IN
    IF _atomic_val(n1, qn) >= 0 THEN GetRes(n1, r, TRUE, <<qn>>)
    ELSE IF Cnt(n1, qn) # 0 /\ ~aabb_intersects(n1[qn].bound, range)
         THEN GetRes(_atomic_incrlock(n1, qn), r, FALSE, <<qn>>)
    ELSE
        LET r0 == IF Cnt(n1, qn) # 0 THEN r \o Matching(n1[qn].elist, range) ELSE r
            n2 == _atomic_incrlock(n1, qn)
        IN
        IF ~HasNW(n1, qn) THEN GetRes(n2, r0, FALSE, <<qn>>) ELSE
        LET g1 == qnode_getInRange(n2, Child(qn, NW), r0, range) IN
        IF g1.hang THEN [g1 EXCEPT !.seen = <<qn>> \o @] ELSE
        LET g2 == qnode_getInRange(g1.nodes, Child(qn, NE), g1.list, range) IN
        IF g2.hang THEN [g2 EXCEPT !.seen = <<qn>> \o g1.seen \o @] ELSE
        LET g3 == qnode_getInRange(g2.nodes, Child(qn, SW), g2.list, range) IN
        IF g3.hang THEN [g3 EXCEPT !.seen = <<qn>> \o g1.seen \o g2.seen \o @] ELSE
        LET g4 == qnode_getInRange(g3.nodes, Child(qn, SE), g3.list, range) IN
        [g4 EXCEPT !.seen = <<qn>> \o g1.seen \o g2.seen \o g3.seen \o @]

\* qnode_free: the node table without qn and the nodes below it
RECURSIVE qnode_free(_, _)
qnode_free(ns, qn) ==
    LET n1 == [ns EXCEPT ![qn].elist = <<>>]
        n2 == IF HasNW(n1, qn)
              THEN qnode_free(qnode_free(qnode_free(qnode_free(n1,
                       Child(qn, NW)), Child(qn, NE)), Child(qn, SW)), Child(qn, SE))
              ELSE n1
    IN  [n \in (DOMAIN n2) \ {qn} |-> n2[n]]

----------------------------------------------------------------------------
(* quadtree.c: the exported calls, each run to its return by a single thread *)

\* cnt || 1
LogicalOr(a, b) == IF a # 0 \/ b # 0 THEN 1 ELSE 0

qtree_new(x, y, w, h) == qnode_new(x + (w \div 2), y + (h \div 2), w \div 2, h \div 2)

\* [nodes, qw, ret, hang, deep] after qtree_insert(q, ptr)
qtree_insert(ns, rt, cap, qw, ptr) ==
    LET w1 == qw - 1 IN
    IF ~(w1 < 0) THEN [nodes |-> ns, qw |-> w1, ret |-> 0, hang |-> TRUE, deep |-> FALSE]
    ELSE LET r == qnode_insert(ns, cap, rt, ptr)
         IN  [nodes |-> r.nodes, qw |-> IF r.hang \/ r.deep THEN w1 ELSE w1 + 1,
              ret |-> r.ret, hang |-> r.hang, deep |-> r.deep]

\* [nodes, qw, ret, hang, dropped] after qtree_remove(q, ptr)
qtree_remove(ns, rt, qw, ptr) ==
    LET w1 == qw - 1 IN
    IF ~(w1 < 0) THEN [nodes |-> ns, qw |-> w1, ret |-> NULL, hang |-> TRUE, dropped |-> 0]
    ELSE LET r == qnode_remove(ns, rt, ptr)
         IN  [nodes |-> r.nodes, qw |-> IF r.hang THEN w1 ELSE w1 + 1,
              ret |-> r.ret, hang |-> r.hang, dropped |-> r.dropped]

qtree_setMaxNodeCnt(cnt) == LogicalOr(cnt, 1)

\* the search range qtree_findInArea builds from (x, y, w, h)
Range(a) ==
    LET hw == a.w \div 2
        hh == a.h \div 2
    IN  aabb(a.x + hw, a.y + hh, hw, hh)

\* [nodes, qw, list, hang, seen] after qtree_findInArea(q, x, y, w, h, &cnt)
qtree_findInArea(ns, rt, qw, a) ==
    LET w1 == qw - 1 IN
    IF ~(w1 < 0)
    THEN [nodes |-> ns, qw |-> w1, list |-> <<>>, hang |-> TRUE, seen |-> <<>>]
    ELSE LET r == qnode_getInRange(ns, rt, <<>>, Range(a))
         IN  [nodes |-> r.nodes, qw |-> IF r.hang THEN w1 ELSE w1 + 1,
              list |-> r.list, hang |-> r.hang, seen |-> r.seen]

\* a clear that hands the half-extents to the constructor's conversion again
qtree_clear_halved(ns, rt, qw, newroot) ==
    LET n1 == (newroot :> qtree_new(ns[rt].bound.cx, ns[rt].bound.cy,
                                    ns[rt].bound.hw, ns[rt].bound.hh)) @@ ns
    IN  [nodes |-> qnode_free(n1, rt), root |-> newroot, qw |-> qw, hang |-> FALSE]

\* [nodes, root, qw, hang] after qtree_clear(q); newroot names the node qnode_new returns
qtree_clear(ns, rt, qw, newroot) ==
    LET w1 == qw + 1 IN
    IF w1 # 1 THEN [nodes |-> ns, root |-> rt, qw |-> w1, hang |-> TRUE]
    ELSE LET x  == ns[rt].bound.cx
             y  == ns[rt].bound.cy
             w  == ns[rt].bound.hw
             h  == ns[rt].bound.hh
             qn == rt
             n1 == (newroot :> qnode_new(x, y, w, h)) @@ ns
             w2 == w1 - 1
         IN  [nodes |-> qnode_free(n1, qn), root |-> newroot, qw |-> w2, hang |-> FALSE]

\* number of slots holding h over all the element lists
RECURSIVE CountIn(_, _)
CountIn(list, h) ==
    IF list = <<>> THEN 0
    ELSE (IF Head(list) = h THEN 1 ELSE 0) + CountIn(Tail(list), h)

RECURSIVE SumOver(_, _, _)
SumOver(ns, S, h) ==
    IF S = {} THEN 0
    ELSE LET n == CHOOSE n \in S : TRUE
         IN  CountIn(ns[n].elist, h) + SumOver(ns, S \ {n}, h)

Occ(ns, h) == SumOver(ns, DOMAIN ns, h)

RECURSIVE TotalOver(_, _)
TotalOver(ns, S) ==
    IF S = {} THEN 0
    ELSE LET n == CHOOSE n \in S : TRUE
         IN  Len(ns[n].elist) + TotalOver(ns, S \ {n})

TotalCnt(ns) == TotalOver(ns, DOMAIN ns)

Call(o, a, r) == [op |-> o, arg |-> a, res |-> r]

----------------------------------------------------------------------------
(* The single-threaded program: any sequence of calls on one tree *)

Init ==
    /\ root = <<0>>
    /\ nodes = (<<0>> :> qtree_new(NewX, NewY, NewW, NewH))
    /\ maxnodecap = QTREE_STDCAP
    /\ qwrlockval = 0
    /\ gen = 0
    /\ last = Call("new", 0, 0)
    /\ retlist = <<>>
    /\ expect = [h \in Handles |-> 0]
    /\ th = [t \in Threads |-> Idle(0)]
    /\ fault = "none"

Insert(ptr) ==
    LET r == qtree_insert(nodes, root, maxnodecap, qwrlockval, ptr) IN
    /\ TotalCnt(nodes) < MaxElems
    /\ expect[ptr] < MaxElems
    /\ ~r.hang
    /\ ~r.deep
    /\ nodes' = r.nodes
    /\ qwrlockval' = r.qw
    /\ last' = Call("insert", ptr, r.ret)
    /\ retlist' = <<>>
    /\ expect' = [expect EXCEPT ![ptr] = @ + r.ret]
    /\ UNCHANGED <<root, maxnodecap, gen, th, fault>>

Remove(ptr) ==
    LET r == qtree_remove(nodes, root, qwrlockval, ptr) IN
    /\ ~r.hang
    /\ nodes' = r.nodes
    /\ qwrlockval' = r.qw
    /\ last' = Call("remove", ptr, r.dropped)
    /\ retlist' = <<>>
    /\ expect' = [expect EXCEPT ![ptr] = IF Occ(nodes, ptr) > 0 THEN @ - 1 ELSE @]
    /\ UNCHANGED <<root, maxnodecap, gen, th, fault>>

SetMaxNodeCnt(cnt) ==
    /\ maxnodecap' = qtree_setMaxNodeCnt(cnt)
    /\ last' = Call("set_max_cap", cnt, 0)
    /\ retlist' = <<>>
    /\ UNCHANGED <<nodes, root, qwrlockval, gen, expect, th, fault>>

Clear ==
    LET r == qtree_clear(nodes, root, qwrlockval, <<gen + 1>>) IN
    /\ gen < MaxClears
    /\ ~r.hang
    /\ nodes' = r.nodes
    /\ root' = r.root
    /\ qwrlockval' = r.qw
    /\ gen' = gen + 1
    /\ last' = Call("clear", 0, Cardinality(DOMAIN nodes))
    /\ retlist' = <<>>
    /\ expect' = [h \in Handles |-> 0]
    /\ UNCHANGED <<maxnodecap, th, fault>>

FindInArea(a) ==
    LET r == qtree_findInArea(nodes, root, qwrlockval, a) IN
    /\ ~r.hang
    /\ nodes' = r.nodes
    /\ qwrlockval' = r.qw
    /\ last' = Call("find", a, Len(r.list))
    /\ retlist' = r.list
    /\ UNCHANGED <<root, maxnodecap, gen, expect, th, fault>>

Next ==
    \/ \E ptr \in Handles : Insert(ptr)
    \/ \E ptr \in Handles : Remove(ptr)
    \/ \E cnt \in Counts : SetMaxNodeCnt(cnt)
    \/ Clear
    \/ \E a \in Areas : FindInArea(a)

Spec == Init /\ [][Next]_vars

----------------------------------------------------------------------------
(* Properties of the single-threaded program *)

Max(a, b) == IF a >= b THEN a ELSE b

\* the two boxes share interior points: the strict comparison on the exact
\* centre differences
Overlap(a, b) ==
    /\ Abs(a.cx - b.cx) < a.hw + b.hw
    /\ Abs(a.cy - b.cy) < a.hh + b.hh

\* what qtree_findInArea(a) returns when called in the current state
FoundBy(a) == qtree_findInArea(nodes, root, qwrlockval, a).list

\* C1 (query completeness): a handle e stored exactly once, in node n, is
\* returned exactly once by find_in_area(X) whenever predicate(e, X) holds and
\* X intersects the bound of n.
C1_QueryComplete ==
    \A a \in Areas :
        LET found == FoundBy(a) IN
        \A e \in Handles : \A n \in DOMAIN nodes :
            ( /\ CountIn(nodes[n].elist, e) = 1
              /\ Occ(nodes, e) = 1
              /\ cmpfnc(e, Range(a))
              /\ Overlap(nodes[n].bound, Range(a)) )
            => CountIn(found, e) = 1

\* a find_in_area has just returned a handle that is stored once, two levels
\* below the root
C1_Witness ==
    /\ last.op = "find"
    /\ \E e \in Handles : \E n \in DOMAIN nodes :
        /\ Depth(n) = 2
        /\ Occ(nodes, e) = 1
        /\ CountIn(nodes[n].elist, e) = 1
        /\ cmpfnc(e, Range(last.arg))
        /\ Overlap(nodes[n].bound, Range(last.arg))
        /\ CountIn(retlist, e) = 1

\* C2 (query soundness): every handle find_in_area(X) returns is stored in
\* the tree at that moment and satisfies predicate(handle, X).
C2_QuerySound ==
    \A a \in Areas :
        LET found == FoundBy(a) IN
        \A i \in 1..Len(found) :
            /\ Occ(nodes, found[i]) >= 1
            /\ cmpfnc(found[i], Range(a))

\* a find_in_area has just returned some handles and left out a stored one
C2_Witness ==
    /\ last.op = "find"
    /\ retlist # <<>>
    /\ \E h \in Handles : Occ(nodes, h) >= 1 /\ CountIn(retlist, h) = 0

\* C3 (multiplicity accounting): as long as no clear was called, every handle
\* occurs in the element lists as often as it was accepted by insert minus the
\* removes made while it was present, and a remove call drops one occurrence
\* at most.
C3_Multiplicity ==
    gen = 0 =>
        /\ \A h \in Handles : Occ(nodes, h) = expect[h]
        /\ last.op = "remove" => last.res <= 1

\* C4 (clear): a clear leaves the root alone in the tree, without children
\* and without elements, with the bound the root had before the call, and
\* every find_in_area that follows returns nothing.
C4_Clear ==
    [][ gen' = gen + 1 =>
          /\ DOMAIN nodes' = {root'}
          /\ ~HasNW(nodes', root')
          /\ nodes'[root'].elist = <<>>
          /\ nodes'[root'].bound = nodes[root].bound
          /\ \A a \in Areas :
                qtree_findInArea(nodes', root', qwrlockval', a).list = <<>> ]_vars

\* a clear has just returned that freed a subdivided tree
C4_Witness ==
    /\ last.op = "clear"
    /\ last.res > 1
    /\ DOMAIN nodes = {root}

\* C5 (set_max_cap): set_max_cap(n) stores max(n, 1).
C5_SetMaxCap ==
    last.op = "set_max_cap" => maxnodecap = Max(last.arg, 1)

\* C6 (rejected calls are no-ops): an insert of a handle the root's bound
\* does not accept and a remove of a handle stored nowhere leave the element
\* lists, the children and every intent counter as they were.
C6_RejectedNoOp ==
    [][ ( \/ /\ last'.op = "insert"
             /\ ~cmpfnc(last'.arg, nodes[root].bound)
          \/ /\ last'.op = "remove"
             /\ Occ(nodes, last'.arg) = 0 )
        => /\ nodes' = nodes
           /\ root' = root
           /\ qwrlockval' = qwrlockval ]_vars

\* an insert of a handle outside the root has just returned on a subdivided
\* tree that holds elements
C6_Witness ==
    /\ last.op = "insert"
    /\ ~cmpfnc(last.arg, nodes[root].bound)
    /\ HasNW(nodes, root)
    /\ TotalCnt(nodes) > 0

\* the tree after insert(e) followed at once by remove(e), called in the
\* current state
AfterInsert(e) == qtree_insert(nodes, root, maxnodecap, qwrlockval, e)

AfterRoundTrip(e) ==
    LET ins == AfterInsert(e) IN qtree_remove(ins.nodes, root, ins.qw, e)

SameAnswers(e) ==
    LET after == AfterRoundTrip(e) IN
    \A a \in Areas :
        LET found  == FoundBy(a)
            found2 == qtree_findInArea(after.nodes, root, after.qw, a).list
        IN  \A h \in Handles : CountIn(found2, h) = CountIn(found, h)

\* C7 as stated (round trip): insert(e) followed at once by remove(e) leaves
\* every find_in_area answer as it was, for any handle e, stored already or
\* not.
C7_RoundTripAny ==
    \A e \in Handles : ~AfterInsert(e).deep => SameAnswers(e)

\* C7 as amended: the same, for a handle e that is not stored in the tree
\* when insert(e) is called.
C7_RoundTripFresh ==
    \A e \in Handles :
        (~AfterInsert(e).deep /\ Occ(nodes, e) = 0) => SameAnswers(e)

\* a handle that is not stored would be accepted into a child the insert
\* creates, next to elements that stay, and the remove would drop it again
C7_Witness ==
    \E e \in Handles :
        /\ Occ(nodes, e) = 0
        /\ TotalCnt(nodes) > 0
        /\ ~AfterInsert(e).deep
        /\ AfterInsert(e).ret = 1
        /\ DOMAIN AfterInsert(e).nodes # DOMAIN nodes
        /\ AfterRoundTrip(e).dropped = 1

----------------------------------------------------------------------------
(***************************************************************************)
(* The multi-threaded program.  A step is one access to shared memory (a   *)
(* section under q->lock or qn->atomlock, a lock or unlock of qn->lock, a  *)
(* read or write of a node's fields) together with the thread-local code   *)
(* around it.  A spin loop is the step that leaves it, enabled when its    *)
(* condition holds.  The process is followed up to its first memory error. *)
(***************************************************************************)

Parent(n) == SubSeq(n, 1, Len(n) - 1)

Quadrant(n) == n[Len(n)]

\* what dereferencing the pointer to n does: n is the root a thread read, or
\* the child pointer read from n's parent
PtrFault(n) ==
    IF Len(n) = 1 THEN (IF n \in DOMAIN nodes THEN "ok" ELSE "uaf")
    ELSE IF Parent(n) \notin DOMAIN nodes THEN "uaf"
    ELSE IF Quadrant(n) \notin nodes[Parent(n)].kids THEN "null"
    ELSE IF n \notin DOMAIN nodes THEN "uaf"
    ELSE "ok"

\* the node of the next qnode_ call once the call on n has returned 0 / NULL /
\* void to its caller: the next quadrant of the parent, or, after SE, whatever
\* follows the parent's own return; <<>> when the outermost call returns
RECURSIVE NextCall(_)
NextCall(n) ==
    IF Len(n) = 1 THEN <<>>
    ELSE IF Quadrant(n) < SE THEN Child(Parent(n), Quadrant(n) + 1)
    ELSE NextCall(Parent(n))

seqvars == <<last, retlist, expect>>

Crash(t, kind) ==
    /\ fault' = kind
    /\ th' = [th EXCEPT ![t].pc = "crashed"]
    /\ UNCHANGED <<nodes, root, maxnodecap, qwrlockval, gen, seqvars>>

\* thread t goes on at pc with the locals changed as in rec
Goto(t, rec) == th' = [th EXCEPT ![t] = rec]

Return(t) == th' = [th EXCEPT ![t] = Idle(@.calls)]

At(t, where) == fault = "none" /\ th[t].pc = where

(* ---- entering and leaving the exported calls ---- *)

\* QTLOCK(q->lock); q->wrlockval--; QTUNLOCK(q->lock);   (++ in qtree_clear)
CallInsert(t, ptr) ==
    /\ At(t, "idle")
    /\ th[t].calls < MaxCalls
    /\ TotalCnt(nodes) + Cardinality({u \in Threads : th[u].op = "insert"}) < MaxElems
    /\ qwrlockval' = qwrlockval - 1
    /\ Goto(t, [th[t] EXCEPT !.pc = "q_spin", !.op = "insert", !.arg = ptr,
                             !.calls = @ + 1])
    /\ UNCHANGED <<nodes, root, maxnodecap, gen, seqvars, fault>>

CallRemove(t, ptr) ==
    /\ At(t, "idle")
    /\ th[t].calls < MaxCalls
    /\ qwrlockval' = qwrlockval - 1
    /\ Goto(t, [th[t] EXCEPT !.pc = "q_spin", !.op = "remove", !.arg = ptr,
                             !.calls = @ + 1])
    /\ UNCHANGED <<nodes, root, maxnodecap, gen, seqvars, fault>>

CallFindInArea(t, a) ==
    /\ At(t, "idle")
    /\ th[t].calls < MaxCalls
    /\ qwrlockval' = qwrlockval - 1
    /\ Goto(t, [th[t] EXCEPT !.pc = "q_spin", !.op = "find", !.arg = a,
                             !.calls = @ + 1])
    /\ UNCHANGED <<nodes, root, maxnodecap, gen, seqvars, fault>>

CallClear(t) ==
    /\ At(t, "idle")
    /\ th[t].calls < MaxCalls
    /\ qwrlockval' = qwrlockval + 1
    /\ Goto(t, [th[t] EXCEPT !.pc = "clr_spin", !.op = "clear", !.calls = @ + 1])
    /\ UNCHANGED <<nodes, root, maxnodecap, gen, seqvars, fault>>

\* ATOM_WRSPIN(q->wrlockval, <, 0)
QSpin(t) ==
    /\ At(t, "q_spin")
    /\ qwrlockval < 0
    /\ Goto(t, [th[t] EXCEPT !.pc = "q_root"])
    /\ UNCHANGED <<nodes, root, maxnodecap, qwrlockval, gen, seqvars, fault>>

\* the argument q->root of the call of qnode_insert, qnode_remove, qnode_getInRange
QRoot(t) ==
    /\ At(t, "q_root")
    /\ Goto(t, [th[t] EXCEPT !.cur = root,
                             !.pc = CASE th[t].op = "insert" -> "ins_enter"
                                      [] th[t].op = "remove" -> "rem_enter"
                                      [] th[t].op = "find"   -> "get_enter"])
    /\ UNCHANGED <<nodes, root, maxnodecap, qwrlockval, gen, seqvars, fault>>

\* QTLOCK(q->lock); q->wrlockval++; QTUNLOCK(q->lock); and the return
QIncr(t) ==
    /\ At(t, "q_incr")
    /\ qwrlockval' = qwrlockval + 1
    /\ Return(t)
    /\ UNCHANGED <<nodes, root, maxnodecap, gen, seqvars, fault>>

\* the caller of the qnode_ call on n, which returned nothing found, goes on
\* with the call on the next node; enter is where that call starts
Continue(t, n, enter) ==
    IF NextCall(n) = <<>>
    THEN Goto(t, [th[t] EXCEPT !.pc = "q_incr", !.cur = <<>>])
    ELSE Goto(t, [th[t] EXCEPT !.pc = enter, !.cur = NextCall(n)])

(* ---- qnode_insert ---- *)

\* QTLOCK(qn->lock); ATOM_INCRLOCK(q, qn);
InsEnter(t) ==
    LET n == th[t].cur IN
    /\ At(t, "ins_enter")
    /\ IF PtrFault(n) # "ok" THEN Crash(t, PtrFault(n)) ELSE
        /\ nodes[n].lock = 0
        /\ nodes' = [_atomic_incrlock(nodes, n) EXCEPT ![n].lock = t]
        /\ Goto(t, [th[t] EXCEPT !.pc = "ins_spin"])
        /\ UNCHANGED <<root, maxnodecap, qwrlockval, gen, seqvars, fault>>

\* a spin that is left at once, whatever the counter holds
InsSpin_nowait(t) ==
    LET n == th[t].cur IN
    /\ At(t, "ins_spin")
    /\ nodes' = [nodes EXCEPT ![n].lock = 0]
    /\ Goto(t, [th[t] EXCEPT !.pc = "ins_work"])
    /\ UNCHANGED <<root, maxnodecap, qwrlockval, gen, seqvars, fault>>

\* ATOM_SPIN(q, qn, !=, 1); QTUNLOCK(qn->lock);
InsSpin(t) ==
    LET n == th[t].cur IN
    /\ At(t, "ins_spin")
    /\ _atomic_val(nodes, n) = 1
    /\ nodes' = [nodes EXCEPT ![n].lock = 0]
    /\ Goto(t, [th[t] EXCEPT !.pc = "ins_work"])
    /\ UNCHANGED <<root, maxnodecap, qwrlockval, gen, seqvars, fault>>

\* the predicate test, the capacity test with add, the test of qn->nw
InsWork(t) ==
    LET n == th[t].cur IN
    /\ At(t, "ins_work")
    /\ IF n \notin DOMAIN nodes THEN Crash(t, "uaf") ELSE
        /\ IF ~cmpfnc(th[t].arg, nodes[n].bound)
           THEN /\ Goto(t, [th[t] EXCEPT !.pc = "ins_exit", !.ret = 0])
                /\ UNCHANGED nodes
           ELSE IF Cnt(nodes, n) < qtree_getMaxNodeCnt(maxnodecap)
           THEN /\ nodes' = add(nodes, n, th[t].arg)
                /\ Goto(t, [th[t] EXCEPT !.pc = "ins_exit", !.ret = 1])
           ELSE IF ~HasNW(nodes, n)
           THEN /\ Goto(t, [th[t] EXCEPT !.pc = "ins_sub", !.k = NW])
                /\ UNCHANGED nodes
           ELSE /\ Goto(t, [th[t] EXCEPT !.pc = "ins_decr"])
                /\ UNCHANGED nodes
        /\ UNCHANGED <<root, maxnodecap, qwrlockval, gen, seqvars, fault>>

\* one assignment of subdivide
InsSub(t) ==
    LET n == th[t].cur IN
    /\ At(t, "ins_sub")
    /\ Depth(n) < MaxDepth
    /\ IF n \notin DOMAIN nodes THEN Crash(t, "uaf") ELSE
        /\ nodes' = subdivide_one(nodes, n, th[t].k)
        /\ IF th[t].k < SE
           THEN Goto(t, [th[t] EXCEPT !.k = @ + 1])
           ELSE Goto(t, [th[t] EXCEPT !.pc = "ins_decr", !.k = 0])
        /\ UNCHANGED <<root, maxnodecap, qwrlockval, gen, seqvars, fault>>

\* ATOM_DECRLOCK(q, qn) in front of the calls on the children
InsDecr(t) ==
    LET n == th[t].cur IN
    /\ At(t, "ins_decr")
    /\ IF n \notin DOMAIN nodes THEN Crash(t, "uaf") ELSE
        /\ nodes' = _atomic_decrlock(nodes, n)
        /\ Goto(t, [th[t] EXCEPT !.pc = "ins_enter", !.cur = Child(n, NW)])
        /\ UNCHANGED <<root, maxnodecap, qwrlockval, gen, seqvars, fault>>

\* QN_INS_EXIT: ATOM_DECRLOCK(q, qn); return ret;  a 1 is handed up to qtree_insert
InsExit(t) ==
    LET n == th[t].cur IN
    /\ At(t, "ins_exit")
    /\ IF n \notin DOMAIN nodes THEN Crash(t, "uaf") ELSE
        /\ nodes' = _atomic_decrlock(nodes, n)
        /\ IF th[t].ret = 1
           THEN Goto(t, [th[t] EXCEPT !.pc = "q_incr", !.cur = <<>>])
           ELSE Continue(t, n, "ins_enter")
        /\ UNCHANGED <<root, maxnodecap, qwrlockval, gen, seqvars, fault>>

(* ---- qnode_remove ---- *)

\* QTLOCK(qn->lock); ATOM_INCRLOCK(q, qn);
RemEnter(t) ==
    LET n == th[t].cur IN
    /\ At(t, "rem_enter")
    /\ IF PtrFault(n) # "ok" THEN Crash(t, PtrFault(n)) ELSE
        /\ nodes[n].lock = 0
        /\ nodes' = [_atomic_incrlock(nodes, n) EXCEPT ![n].lock = t]
        /\ Goto(t, [th[t] EXCEPT !.pc = "rem_spin"])
        /\ UNCHANGED <<root, maxnodecap, qwrlockval, gen, seqvars, fault>>

\* ATOM_SPIN(q, qn, !=, 1); QTUNLOCK(qn->lock);
RemSpin(t) ==
    LET n == th[t].cur IN
    /\ At(t, "rem_spin")
    /\ _atomic_val(nodes, n) = 1
    /\ nodes' = [nodes EXCEPT ![n].lock = 0]
    /\ Goto(t, [th[t] EXCEPT !.pc = "rem_work"])
    /\ UNCHANGED <<root, maxnodecap, qwrlockval, gen, seqvars, fault>>

\* the scan of elist; on a hit drop, ptr = NULL and the jump to QN_REM_EXIT
RemWork(t) ==
    LET n == th[t].cur
        i == FirstIdx(nodes[n].elist, th[t].arg)
    IN
    /\ At(t, "rem_work")
    /\ IF n \notin DOMAIN nodes THEN Crash(t, "uaf") ELSE
        /\ IF Cnt(nodes, n) # 0 /\ i # 0
           THEN /\ nodes' = drop(nodes, n, i)
                /\ Goto(t, [th[t] EXCEPT !.pc = "rem_exit", !.ret = NULL])
           ELSE /\ Goto(t, [th[t] EXCEPT !.pc = "rem_decr"])
                /\ UNCHANGED nodes
        /\ UNCHANGED <<root, maxnodecap, qwrlockval, gen, seqvars, fault>>

\* ATOM_DECRLOCK(q, qn) after a scan without a hit
RemDecr(t) ==
    LET n == th[t].cur IN
    /\ At(t, "rem_decr")
    /\ IF n \notin DOMAIN nodes THEN Crash(t, "uaf") ELSE
        /\ nodes' = _atomic_decrlock(nodes, n)
        /\ Goto(t, [th[t] EXCEPT !.pc = "rem_desc"])
        /\ UNCHANGED <<root, maxnodecap, qwrlockval, gen, seqvars, fault>>

\* if(! qn->nw) return NULL;  else the calls on the children
RemDesc(t) ==
    LET n == th[t].cur IN
    /\ At(t, "rem_desc")
    /\ IF n \notin DOMAIN nodes THEN Crash(t, "uaf") ELSE
        /\ IF ~HasNW(nodes, n)
           THEN Continue(t, n, "rem_enter")
           ELSE Goto(t, [th[t] EXCEPT !.pc = "rem_enter", !.cur = Child(n, NW)])
        /\ UNCHANGED <<nodes, root, maxnodecap, qwrlockval, gen, seqvars, fault>>

\* QN_REM_EXIT: ATOM_DECRLOCK(q, qn); return ptr;  the caller returns when the
\* value is not NULL
RemExit(t) ==
    LET n == th[t].cur IN
    /\ At(t, "rem_exit")
    /\ IF n \notin DOMAIN nodes THEN Crash(t, "uaf") ELSE
        /\ nodes' = _atomic_decrlock(nodes, n)
        /\ IF th[t].ret # NULL
           THEN Goto(t, [th[t] EXCEPT !.pc = "q_incr", !.cur = <<>>])
           ELSE Continue(t, n, "rem_enter")
        /\ UNCHANGED <<root, maxnodecap, qwrlockval, gen, seqvars, fault>>

(* ---- qnode_getInRange ---- *)

\* QTLOCK(qn->lock); ATOM_DECRLOCK(q, qn);
GetEnter(t) ==
    LET n == th[t].cur IN
    /\ At(t, "get_enter")
    /\ IF PtrFault(n) # "ok" THEN Crash(t, PtrFault(n)) ELSE
        /\ nodes[n].lock = 0
        /\ nodes' = [_atomic_decrlock(nodes, n) EXCEPT ![n].lock = t]
        /\ Goto(t, [th[t] EXCEPT !.pc = "get_spin"])
        /\ UNCHANGED <<root, maxnodecap, qwrlockval, gen, seqvars, fault>>

\* ATOM_SPIN(q, qn, >=, 0); QTUNLOCK(qn->lock);
GetSpin(t) ==
    LET n == th[t].cur IN
    /\ At(t, "get_spin")
    /\ ~(_atomic_val(nodes, n) >= 0)
    /\ nodes' = [nodes EXCEPT ![n].lock = 0]
    /\ Goto(t, [th[t] EXCEPT !.pc = "get_work"])
    /\ UNCHANGED <<root, maxnodecap, qwrlockval, gen, seqvars, fault>>

\* the intersection test and the scan when qn->cnt is not 0, then the test of qn->nw
GetWork(t) ==
    LET n == th[t].cur
        range == Range(th[t].arg)
    IN
    /\ At(t, "get_work")
    /\ IF n \notin DOMAIN nodes THEN Crash(t, "uaf") ELSE
        /\ IF Cnt(nodes, n) # 0 /\ ~aabb_intersects(nodes[n].bound, range)
           THEN Goto(t, [th[t] EXCEPT !.pc = "get_exit"])
           ELSE Goto(t, [th[t] EXCEPT
                    !.list = IF Cnt(nodes, n) # 0
                             THEN @ \o Matching(nodes[n].elist, range) ELSE @,
                    !.pc = IF ~HasNW(nodes, n) THEN "get_exit" ELSE "get_incr"])
        /\ UNCHANGED <<nodes, root, maxnodecap, qwrlockval, gen, seqvars, fault>>

\* ATOM_INCRLOCK(q, qn) in front of the calls on the children
GetIncr(t) ==
    LET n == th[t].cur IN
    /\ At(t, "get_incr")
    /\ IF n \notin DOMAIN nodes THEN Crash(t, "uaf") ELSE
        /\ nodes' = _atomic_incrlock(nodes, n)
        /\ Goto(t, [th[t] EXCEPT !.pc = "get_enter", !.cur = Child(n, NW)])
        /\ UNCHANGED <<root, maxnodecap, qwrlockval, gen, seqvars, fault>>

\* QN_GET_EXIT: ATOM_INCRLOCK(q, qn);
GetExit(t) ==
    LET n == th[t].cur IN
    /\ At(t, "get_exit")
    /\ IF n \notin DOMAIN nodes THEN Crash(t, "uaf") ELSE
        /\ nodes' = _atomic_incrlock(nodes, n)
        /\ Continue(t, n, "get_enter")
        /\ UNCHANGED <<root, maxnodecap, qwrlockval, gen, seqvars, fault>>

(* ---- qtree_clear and qnode_free ---- *)

\* ATOM_WRSPIN(q->wrlockval, ==, 1)
ClrSpin(t) ==
    /\ At(t, "clr_spin")
    /\ qwrlockval = 1
    /\ Goto(t, [th[t] EXCEPT !.pc = "clr_read"])
    /\ UNCHANGED <<nodes, root, maxnodecap, qwrlockval, gen, seqvars, fault>>

\* x, y, w, h = q->root->bound...;  qn = q->root;
ClrRead(t) ==
    /\ At(t, "clr_read")
    /\ IF root \notin DOMAIN nodes THEN Crash(t, "uaf") ELSE
        /\ Goto(t, [th[t] EXCEPT !.pc = "clr_write", !.old = root,
                                 !.bnd = nodes[root].bound])
        /\ UNCHANGED <<nodes, root, maxnodecap, qwrlockval, gen, seqvars, fault>>

\* q->root = qnode_new(q, x, y, w, h);
ClrWrite(t) ==
    LET b == th[t].bnd IN
    /\ At(t, "clr_write")
    /\ nodes' = (<<gen + 1>> :> qnode_new(b.cx, b.cy, b.hw, b.hh)) @@ nodes
    /\ root' = <<gen + 1>>
    /\ gen' = gen + 1
    /\ Goto(t, [th[t] EXCEPT !.pc = "clr_decr", !.bnd = 0])
    /\ UNCHANGED <<maxnodecap, qwrlockval, seqvars, fault>>

\* QTLOCK(q->lock); q->wrlockval--; QTUNLOCK(q->lock);  then qnode_free(q, qn)
ClrDecr(t) ==
    /\ At(t, "clr_decr")
    /\ qwrlockval' = qwrlockval - 1
    /\ Goto(t, [th[t] EXCEPT !.pc = "free_enter", !.cur = th[t].old])
    /\ UNCHANGED <<nodes, root, maxnodecap, gen, seqvars, fault>>

\* qnode_free: QTLOCK(qn->lock); free(qn->elist); qn->cnt = 0; the test of qn->nw.
\* A node that is gone was freed before: this is the second free of it.
FreeEnter(t) ==
    LET n == th[t].cur
        f == IF PtrFault(n) = "uaf" THEN "double_free" ELSE PtrFault(n)
    IN
    /\ At(t, "free_enter")
    /\ IF f # "ok" THEN Crash(t, f) ELSE
        /\ nodes[n].lock = 0
        /\ nodes' = [nodes EXCEPT ![n].lock = t, ![n].elist = <<>>]
        /\ IF HasNW(nodes, n)
           THEN Goto(t, [th[t] EXCEPT !.cur = Child(n, NW)])
           ELSE Goto(t, [th[t] EXCEPT !.pc = "free_exit"])
        /\ UNCHANGED <<root, maxnodecap, qwrlockval, gen, seqvars, fault>>

\* qnode_free: QTUNLOCK(qn->lock); QTFREE(...); free(qn);  then the caller goes
\* on: the next child, the end of the parent's qnode_free, or the return of qtree_clear
FreeExit(t) ==
    LET n == th[t].cur IN
    /\ At(t, "free_exit")
    /\ nodes' = [m \in (DOMAIN nodes) \ {n} |-> nodes[m]]
    /\ IF n = th[t].old THEN Return(t)
       ELSE IF Quadrant(n) < SE
       THEN Goto(t, [th[t] EXCEPT !.pc = "free_enter",
                                  !.cur = Child(Parent(n), Quadrant(n) + 1)])
       ELSE Goto(t, [th[t] EXCEPT !.cur = Parent(n)])
    /\ UNCHANGED <<root, maxnodecap, qwrlockval, gen, seqvars, fault>>

(* ---- the multi-threaded program ---- *)

\* the tree the threads start on: constructed, and possibly given a capacity
InitC ==
    /\ root = <<0>>
    /\ nodes = (<<0>> :> qtree_new(NewX, NewY, NewW, NewH))
    /\ maxnodecap \in {QTREE_STDCAP} \cup {qtree_setMaxNodeCnt(cnt) : cnt \in Counts}
    /\ qwrlockval = 0
    /\ gen = 0
    /\ last = Call("new", 0, 0)
    /\ retlist = <<>>
    /\ expect = [h \in Handles |-> 0]
    /\ th = [t \in Threads |-> Idle(0)]
    /\ fault = "none"

ThreadStep(t) ==
    \/ \E ptr \in ThreadHandles : CallInsert(t, ptr)
    \/ \E ptr \in ThreadHandles : CallRemove(t, ptr)
    \/ \E a \in ThreadAreas : CallFindInArea(t, a)
    \/ CallClear(t)
    \/ QSpin(t) \/ QRoot(t) \/ QIncr(t)
    \/ InsEnter(t) \/ InsSpin(t) \/ InsWork(t) \/ InsSub(t) \/ InsDecr(t) \/ InsExit(t)
    \/ RemEnter(t) \/ RemSpin(t) \/ RemWork(t) \/ RemDecr(t) \/ RemDesc(t) \/ RemExit(t)
    \/ GetEnter(t) \/ GetSpin(t) \/ GetWork(t) \/ GetIncr(t) \/ GetExit(t)
    \/ ClrSpin(t) \/ ClrRead(t) \/ ClrWrite(t) \/ ClrDecr(t)
    \/ FreeEnter(t) \/ FreeExit(t)

NextC == \E t \in Threads : ThreadStep(t)

SpecC == InitC /\ [][NextC]_vars

----------------------------------------------------------------------------
(* Properties of the multi-threaded program *)

\* every call made has returned
AllReturned == \A t \in Threads : th[t].pc = "idle"

\* t is inside the critical section of qtree_clear: its spin saw the
\* tree-global counter at 1 and it has not decremented the counter yet
InClearCS(t) == th[t].pc \in {"clr_read", "clr_write", "clr_decr"}

\* t is in an insert, remove or find_in_area, past the spin on the
\* tree-global counter and in front of its increment
PastSpin(t) ==
    /\ th[t].op \in {"insert", "remove", "find"}
    /\ th[t].pc \notin {"idle", "q_spin", "crashed"}

\* C8 (termination under concurrency): every call returns; in a state where a
\* call has not returned, some thread can take a step (no set of calls is
\* left spinning with nobody there to change the counter they wait for).
C8_Terminates ==
    fault = "none" => (AllReturned \/ ENABLED NextC)

\* C9 (tree-level exclusion of clear): while a clear is inside its critical
\* section, no insert, remove or find_in_area is past its tree-level spin and
\* no other clear is inside its critical section.
C9_ClearExclusion ==
    \A t \in Threads : InClearCS(t) =>
        \A u \in Threads \ {t} : ~PastSpin(u) /\ ~InClearCS(u)

\* C10 (memory safety under concurrency): no call reads or writes a node that
\* clear has freed, and no node is freed twice.
C10_MemorySafe ==
    fault \notin {"uaf", "double_free"}

\* thread t is an insert or remove doing its work on node n: past the spin on
\* the node's counter, in front of the matching decrement
WriterAt(t, n) ==
    /\ th[t].cur = n
    /\ th[t].pc \in {"ins_work", "ins_sub", "ins_decr", "ins_exit",
                     "rem_work", "rem_decr", "rem_exit"}

\* thread t is a query reading node n: past the spin on the node's counter, in
\* front of the matching increment
ReaderAt(t, n) ==
    /\ th[t].cur = n
    /\ th[t].pc \in {"get_work", "get_incr", "get_exit"}

\* thread t has announced itself at node n and waits in the spin on its counter
WaitingAt(t, n) ==
    /\ th[t].cur = n
    /\ th[t].pc \in {"ins_spin", "rem_spin", "get_spin"}

\* C11 (per-node exclusion): on every node at most one insert or remove does
\* its node-local work at a time, and no query reads the node's element list
\* while an insert or remove works on it.
C11_NodeExclusion ==
    \A t \in Threads : \A u \in Threads \ {t} :
        WriterAt(t, th[t].cur) =>
            /\ ~WriterAt(u, th[t].cur)
            /\ ~ReaderAt(u, th[t].cur)

\* an insert works on a node while another call waits at that node, and a
\* query reads a node while an insert waits at it
C11_Witness ==
    /\ fault = "none"
    /\ \E t \in Threads : \E u \in Threads \ {t} :
        /\ WriterAt(t, th[t].cur)
        /\ WaitingAt(u, th[t].cur)
        /\ th[u].op \in {"insert", "find"}

\* qtree_clear was not called so far: no call of it is in flight, none replaced
\* the root
NoClearCalled ==
    /\ gen = 0
    /\ \A t \in Threads : th[t].op # "clear"

\* C12 (no partially subdivided node is observed): with insert, remove and
\* find_in_area calls alone, a call that found qn->nw set and descends never
\* dereferences a child pointer that is still NULL.
C12_ChildrenExist ==
    NoClearCalled => fault # "null"

\* C13 (balanced intent counters): whenever no call is in flight, the
\* tree-global counter and the counter of every node are 0.
C13_Balanced ==
    (AllReturned /\ fault = "none") =>
        /\ qwrlockval = 0
        /\ \A n \in DOMAIN nodes : _atomic_val(nodes, n) = 0

\* a remove has just returned from a tree with nodes two levels below the
\* root, after dropping an element, and no call is in flight
C13_Witness ==
    /\ AllReturned
    /\ last.op = "remove"
    /\ last.res >= 1
    /\ \E n \in DOMAIN nodes : Depth(n) = 2
    /\ TotalCnt(nodes) > 0

\* the inserts and removes working on node n, and the queries reading it
WritersAt(n) == {t \in Threads : WriterAt(t, n)}

ReadersAt(n) == {t \in Threads : ReaderAt(t, n)}

\* the calls that have changed the counter of n on entry and have not changed
\* it back: those working on n and the one waiting in its spin
WritersIn(n) ==
    {t \in Threads : WriterAt(t, n) \/ (WaitingAt(t, n) /\ th[t].op \in {"insert", "remove"})}

ReadersIn(n) ==
    {t \in Threads : ReaderAt(t, n) \/ (WaitingAt(t, n) /\ th[t].op = "find")}

C15_Placement ==
    \A n \in DOMAIN nodes : \A i \in 1..Len(nodes[n].elist) :
        cmpfnc(nodes[n].elist[i], nodes[n].bound)

\* an insert has just been accepted, elements sit at every level of the tree,
\* and a handle the root's bound does not accept is stored nowhere
C15_Witness ==
    /\ last.op = "insert"
    /\ last.res = 1
    /\ \A d \in 0..MaxDepth : \E n \in DOMAIN nodes : Depth(n) = d /\ Cnt(nodes, n) > 0
    /\ \E h \in Handles : ~cmpfnc(h, nodes[root].bound) /\ Occ(nodes, h) = 0

\* the first of the four node names that is one, <<>> when none is
FirstPlace(p1, p2, p3, p4) ==
    IF p1 # <<>> THEN p1 ELSE IF p2 # <<>> THEN p2 ELSE IF p3 # <<>> THEN p3 ELSE p4

\* the node the placement rule names for ptr in the subtree of qn: qn itself
\* when its bound accepts ptr and it holds fewer than cap elements, otherwise
\* what the rule names in the first child, in the order NW, NE, SW, SE, whose
\* subtree accepts; <<>> when the subtree refuses.  The children of a full
\* leaf are the empty nodes a subdivide gives it.
RECURSIVE PlaceOf(_, _, _, _)
PlaceOf(ns, cap, qn, ptr) ==
    IF ~cmpfnc(ptr, ns[qn].bound) THEN <<>>
    ELSE IF Cnt(ns, qn) < cap THEN qn
    ELSE IF ~HasNW(ns, qn) /\ Depth(qn) >= MaxDepth THEN <<>>
    ELSE LET n2 == IF HasNW(ns, qn) THEN ns ELSE subdivide(ns, qn)
         IN  FirstPlace(PlaceOf(n2, cap, Child(qn, NW), ptr),
                        PlaceOf(n2, cap, Child(qn, NE), ptr),
                        PlaceOf(n2, cap, Child(qn, SW), ptr),
                        PlaceOf(n2, cap, Child(qn, SE), ptr))

\* the element list of n in the node table ns, empty for a node not yet there
ListOf(ns, n) == IF n \in DOMAIN ns THEN ns[n].elist ELSE <<>>

\* C16 (placement rule): an accepted insert appends the handle to the list of
\* the one node the placement rule names and leaves every other list as it
\* was; the elements of a leaf that subdivides stay where they are and no
\* node goes away.
C16_PlacementRule ==
    [][ (last'.op = "insert" /\ last'.res = 1) =>
          LET p == PlaceOf(nodes, maxnodecap, root, last'.arg) IN
          /\ p \in DOMAIN nodes'
          /\ nodes'[p].elist = Append(ListOf(nodes, p), last'.arg)
          /\ DOMAIN nodes \subseteq DOMAIN nodes'
          /\ \A n \in (DOMAIN nodes') \ {p} : nodes'[n].elist = ListOf(nodes, n) ]_vars

\* an insert of S has just been accepted by NE, after the full root and the
\* full NW, whose children all refuse S, passed it on; NW was subdivided on
\* the way and kept its element, as did the root
C16_Witness ==
    /\ last.op = "insert"
    /\ last.res = 1
    /\ last.arg = "S"
    /\ HasNW(nodes, root)
    /\ Cnt(nodes, root) > 0
    /\ HasNW(nodes, Child(root, NW))
    /\ Cnt(nodes, Child(root, NW)) > 0
    /\ nodes[Child(root, NE)].elist = <<"S">>

\* the nodes qtree_findInArea(a) makes a qnode_getInRange call on when called
\* in the current state
VisitedBy(a) ==
    LET seen == qtree_findInArea(nodes, root, qwrlockval, a).seen
    IN  {seen[i] : i \in 1..Len(seen)}

\* C17 (query pruning): a query returns at once at every node whose bound
\* does not intersect the range, with or without elements in the node: it
\* makes no call on any of the node's children.
C17_Pruning ==
    \A a \in Areas :
        LET visited == VisitedBy(a) IN
        \A n \in visited :
            ~aabb_intersects(nodes[n].bound, Range(a)) =>
                \A k \in {NW, NE, SW, SE} : Child(n, k) \notin visited

\* C18 (remove stops at the first hit): qnode_remove called on the root
\* returns the handle when it dropped an occurrence, in the root or below it,
\* and NULL otherwise, and after a hit it drops nothing in a later subtree.
C18_FirstHit ==
    \A e \in Handles :
        LET r == qnode_remove(nodes, root, e) IN
        ~r.hang =>
            /\ r.dropped >= 1 => r.ret = e
            /\ r.dropped = 0 => r.ret = NULL
            /\ r.dropped <= 1

\* C19 as stated (capacity invariant): no node's element list is longer than
\* the capacity the tree is configured with at that moment.
C19_Capacity ==
    \A n \in DOMAIN nodes : Cnt(nodes, n) <= maxnodecap

\* C19 as amended: no call makes a node's element list grow beyond the
\* capacity configured when the call is made; a list filled under a larger
\* capacity stays as long as it is after the capacity was lowered.
C19_GrowthWithinCap ==
    [][ \A n \in DOMAIN nodes' :
            Cnt(nodes', n) > Len(ListOf(nodes, n)) => Cnt(nodes', n) <= maxnodecap' ]_vars

\* an insert has just been accepted below a root that holds more elements
\* than the capacity, which was lowered after the root had been filled
C19_Witness ==
    /\ last.op = "insert"
    /\ last.res = 1
    /\ Cnt(nodes, root) > maxnodecap
    /\ \E n \in (DOMAIN nodes) \ {root} : Cnt(nodes, n) = maxnodecap

\* C20 (intersection test): aabb_intersects(A, B) is the strict comparison on
\* the exact centre differences, here for the bound of every node of the tree
\* as A and the range of every query as B.
C20_IntersectsExact ==
    \A n \in DOMAIN nodes : \A a \in Areas :
        aabb_intersects(nodes[n].bound, Range(a)) = Overlap(nodes[n].bound, Range(a))

====
